---- MODULE Spec2Model ----
(***************************************************************************)
(* A model of juce::DrawablePath (juce_DrawablePath.cpp): the lazy path /  *)
(* stroke cache, the reconciliation with a ValueTree and the encoding to   *)
(* one.  Geometry is one-dimensional: a point is an integer, a rectangle   *)
(* an interval [x, x + w].                                                 *)
(***************************************************************************)
EXTENDS Integers, Sequences, FiniteSets, TLC

\* ------------------------------------------------------------------ bounds
\* Largest value of the named coordinate "a" of the parent context.
MaxAnchor == 1

\* ------------------------------------------------------- collaborators' values
\* Colours::black and a fully transparent colour, as FillType values.
Black == [kind |-> "colour", argb |-> "ff000000"]
Transparent == [kind |-> "colour", argb |-> "00000000"]
Fills == {Black, Transparent}

\* FillType::isInvisible
isInvisible(f) == f.argb = "00000000"

\* PathStrokeType (thickness, jointStyle, endStyle)
PathStrokeType(thickness, joint, end) ==
    [thickness |-> thickness, jointStyle |-> joint, endStyle |-> end]

\* PathStrokeType::JointStyle and PathStrokeType::EndCapStyle
JointStyles == {"mitered", "curved", "beveled"}
EndCapStyles == {"butt", "square", "rounded"}
Thicknesses == {0, 2}

\* The stroke descriptors the setters are given.
StrokeTypes == {PathStrokeType(t, "mitered", "butt") : t \in Thicknesses}
\* Every stroke descriptor.
AllStrokeTypes ==
    {PathStrokeType(t, j, e) : t \in Thicknesses, j \in JointStyles, e \in EndCapStyles}

\* A RelativePoint: a constant (anchor = "") or the named coordinate
\* "a" of the parent plus an offset.
RelativePoint(anchor, off) == [anchor |-> anchor, off |-> off]
RelativePoints == {RelativePoint("", 1), RelativePoint("a", 0)}

\* RelativeCoordinate::isDynamic, for a point
isDynamic(p) == p.anchor # ""

\* RelativePoint::resolve against the parent's coordinate "a"
resolve(p, parent) == IF isDynamic(p) THEN parent + p.off ELSE p.off

\* The parent contexts: the value of its coordinate "a".
Parents == 0..MaxAnchor

\* The segment nodes of a tree's Path child: none, or a Move to a constant
\* point and a Line to a constant or a dynamic one.
SegmentLists ==
    {<<>>} \cup
    {<<[type |-> "Move", p1 |-> p], [type |-> "Line", p1 |-> q]>> :
        p \in {r \in RelativePoints : ~isDynamic(r)}, q \in RelativePoints}

\* RelativePointPath::createPath: the concrete Path of a RelativePointPath
createPath(rp, parent) ==
    [i \in 1..Len(rp) |->
        [type |-> IF rp[i].type = "startSubPath" THEN "Move" ELSE "Line",
         x |-> resolve(rp[i].point, parent)]]

\* RelativePointPath::containsAnyDynamicPoints
containsAnyDynamicPoints(rp) == \E i \in 1..Len(rp) : isDynamic(rp[i].point)

\* RelativePointPath (const ValueTree&): decodes the tree's segment nodes
RelativePointPathFromTree(tree) ==
    [i \in 1..Len(tree.Path) |->
        [type |-> IF tree.Path[i].type = "Move" THEN "startSubPath" ELSE "lineTo",
         point |-> tree.Path[i].p1]]

\* RelativePointPath (const Path&): every point of the path as a constant
RelativePointPathFromPath(path) ==
    [i \in 1..Len(path) |->
        [type |-> IF path[i].type = "Move" THEN "startSubPath" ELSE "lineTo",
         point |-> RelativePoint("", path[i].x)]]

\* RelativePointPath::writeTo: the segment nodes of a tree
writeTo(rp) ==
    [i \in 1..Len(rp) |->
        [type |-> IF rp[i].type = "startSubPath" THEN "Move" ELSE "Line",
         p1 |-> rp[i].point]]

\* ValueTreeWrapperBase::writeFillType / readFillType
writeFillType(f) == [type |-> "solid", colour |-> f.argb]
readFillType(node) == [kind |-> "colour", argb |-> node.colour]

\* Rectangle<float>(): the empty rectangle
Rectangle == [x |-> 0, w |-> 0]
isEmpty(r) == r.w <= 0

Min(a, b) == IF a < b THEN a ELSE b
Max(a, b) == IF a > b THEN a ELSE b

\* Rectangle::getUnion: the smallest rectangle covering both; an empty
\* rectangle covers nothing.
getUnion(a, b) ==
    IF isEmpty(a) THEN b
    ELSE IF isEmpty(b) THEN a
    ELSE LET lo == Min(a.x, b.x)
             hi == Max(a.x + a.w, b.x + b.w)
         IN [x |-> lo, w |-> hi - lo]

\* The extent of an outline: of a path its points, of a stroke outline
\* the stroked path's points widened by half the thickness.
Xs(p) == {p[i].x : i \in 1..Len(p)}
Lowest(S) == CHOOSE m \in S : \A n \in S : m <= n
Highest(S) == CHOOSE m \in S : \A n \in S : m >= n

\* Path::getBounds
PathBounds(p) ==
    IF Len(p) = 0 THEN Rectangle
    ELSE IF p[1].type = "Outline"
         THEN [x |-> Lowest(Xs(p[1].of)) - (p[1].strokeType.thickness \div 2),
               w |-> Highest(Xs(p[1].of)) - Lowest(Xs(p[1].of)) + p[1].strokeType.thickness]
         ELSE [x |-> Lowest(Xs(p)), w |-> Highest(Xs(p)) - Lowest(Xs(p))]

\* Path::contains
contains(p, x) ==
    LET b == PathBounds(p) IN ~isEmpty(b) /\ b.x <= x /\ x <= b.x + b.w

\* The flattening tolerance updateStroke passes to createStrokedPath.
StrokeTolerance == 4

\* PathStrokeType::createStrokedPath (destPath, source, transform, extraAccuracy)
createStrokedPath(strokeType, source, transform, extraAccuracy) ==
    IF Len(source) < 2 \/ strokeType.thickness <= 0 THEN <<>>
    ELSE <<[type |-> "Outline", of |-> source, strokeType |-> strokeType,
            transform |-> transform, tolerance |-> extraAccuracy]>>

\* ------------------------------------------------------------ DrawablePath
\* The fields of a DrawablePath.  createPathCalls and createStrokedPathCalls
\* count the calls of RelativePointPath::createPath on the owned relative
\* path and of createStrokedPath made by the operation in progress.
\* strokedBeforePath tells whether one of these createStrokedPath calls was
\* made with pathNeedsUpdating set or on a path other than the one
\* getPath() returns.
\* relativePath is a ScopedPointer: <<>> when null, <<rp>> when it owns rp.

\* DrawablePath::DrawablePath()
DrawablePath ==
    [name |-> "", mainFill |-> Black, strokeFill |-> Black,
     strokeType |-> PathStrokeType(0, "mitered", "butt"),
     path |-> <<>>, stroke |-> <<>>, relativePath |-> <<>>,
     pathNeedsUpdating |-> TRUE, strokeNeedsUpdating |-> TRUE,
     createPathCalls |-> 0, createStrokedPathCalls |-> 0,
     strokedBeforePath |-> FALSE]

\* DrawablePath::DrawablePath (const DrawablePath&)
DrawablePathCopy(other) ==
    [name |-> "", mainFill |-> other.mainFill, strokeFill |-> other.strokeFill,
     strokeType |-> other.strokeType,
     path |-> IF other.relativePath # <<>> THEN <<>> ELSE other.path,
     stroke |-> <<>>,
     relativePath |-> other.relativePath,
     pathNeedsUpdating |-> TRUE, strokeNeedsUpdating |-> TRUE,
     createPathCalls |-> 0, createStrokedPathCalls |-> 0,
     strokedBeforePath |-> FALSE]

\* setPath without line 66: the stroke is not marked dirty.
setPathStrokeNotMarked(d, newPath) == [d EXCEPT !.path = newPath]

\* DrawablePath::setPath
setPath(d, newPath) ==
    [d EXCEPT !.path = newPath, !.strokeNeedsUpdating = TRUE]

\* DrawablePath::setFill
setFill(d, newFill) == [d EXCEPT !.mainFill = newFill]

\* DrawablePath::setStrokeFill
setStrokeFill(d, newFill) == [d EXCEPT !.strokeFill = newFill]

\* DrawablePath::setStrokeType
setStrokeType(d, newStrokeType) ==
    [d EXCEPT !.strokeType = newStrokeType, !.strokeNeedsUpdating = TRUE]

\* setStrokeThickness building the descriptor from the thickness alone:
\* the joint and end-cap styles fall back to the defaults.
setStrokeThicknessDefaultStyle(d, newThickness) ==
    setStrokeType(d, PathStrokeType(newThickness, "mitered", "butt"))

\* DrawablePath::setStrokeThickness
setStrokeThickness(d, newThickness) ==
    setStrokeType(d, PathStrokeType(newThickness, d.strokeType.jointStyle,
                                    d.strokeType.endStyle))

\* updatePath without line 94: pathNeedsUpdating is never cleared.
updatePathFlagKept(d, parent) ==
    IF d.pathNeedsUpdating /\ d.relativePath # <<>>
    THEN [d EXCEPT !.path = createPath(d.relativePath[1], parent),
                   !.createPathCalls = @ + 1,
                   !.strokeNeedsUpdating = TRUE]
    ELSE d

\* DrawablePath::updatePath
updatePath(d, parent) ==
    IF d.pathNeedsUpdating
    THEN IF d.relativePath # <<>>
         THEN [d EXCEPT !.pathNeedsUpdating = FALSE,
                        !.path = createPath(d.relativePath[1], parent),
                        !.createPathCalls = @ + 1,
                        !.strokeNeedsUpdating = TRUE]
         ELSE [d EXCEPT !.pathNeedsUpdating = FALSE]
    ELSE d

\* updateStroke with lines 110 and 112 the other way round: the stroke is
\* generated first, the path brought up to date afterwards.
updateStrokeBeforePath(d, parent) ==
    IF d.strokeNeedsUpdating
    THEN LET c == [d EXCEPT !.strokeNeedsUpdating = FALSE]
         IN updatePath(
                [c EXCEPT !.stroke = createStrokedPath(c.strokeType, c.path,
                                                       "identity", StrokeTolerance),
                          !.createStrokedPathCalls = @ + 1,
                          !.strokedBeforePath =
                              \/ @
                              \/ c.pathNeedsUpdating
                              \/ c.path # updatePath(c, parent).path],
                parent)
    ELSE d

\* DrawablePath::updateStroke
updateStroke(d, parent) ==
    IF d.strokeNeedsUpdating
    THEN LET u == updatePath([d EXCEPT !.strokeNeedsUpdating = FALSE], parent)
         IN [u EXCEPT !.stroke = createStrokedPath(u.strokeType, u.path,
                                                   "identity", StrokeTolerance),
                      !.createStrokedPathCalls = @ + 1,
                      !.strokedBeforePath =
                          \/ @
                          \/ u.pathNeedsUpdating
                          \/ u.path # updatePath(u, parent).path]
    ELSE d

\* DrawablePath::getPath: the object after the call and the path returned
getPath(d, parent) ==
    LET u == updatePath(d, parent) IN [obj |-> u, ret |-> u.path]

\* DrawablePath::getStrokePath
getStrokePath(d, parent) ==
    LET u == updateStroke(d, parent) IN [obj |-> u, ret |-> u.stroke]

\* isStrokeVisible without the test of the stroke fill (line 130).
isStrokeVisibleWhateverFill(d) == d.strokeType.thickness > 0

\* DrawablePath::isStrokeVisible
isStrokeVisible(d) == d.strokeType.thickness > 0 /\ ~isInvisible(d.strokeFill)

\* invalidatePoints without line 136: the stroke is not marked dirty.
invalidatePointsPathOnly(d) == [d EXCEPT !.pathNeedsUpdating = TRUE]

\* DrawablePath::invalidatePoints
invalidatePoints(d) ==
    [d EXCEPT !.pathNeedsUpdating = TRUE, !.strokeNeedsUpdating = TRUE]

\* render without the test of isStrokeVisible (line 155): the stroke is
\* always generated and filled.
renderStrokeAlways(d, parent) ==
    LET p == getPath(d, parent)
        s == getStrokePath(p.obj, parent)
    IN [obj |-> s.obj,
        ret |-> <<[fill |-> p.obj.mainFill, path |-> p.ret],
                  [fill |-> s.obj.strokeFill, path |-> s.ret]>>]

\* DrawablePath::render: the fillPath calls made on the graphics context
render(d, parent) ==
    LET p == getPath(d, parent)
        first == <<[fill |-> p.obj.mainFill, path |-> p.ret]>>
    IN IF isStrokeVisible(p.obj)
       THEN LET s == getStrokePath(p.obj, parent)
            IN [obj |-> s.obj,
                ret |-> Append(first, [fill |-> s.obj.strokeFill, path |-> s.ret])]
       ELSE [obj |-> p.obj, ret |-> first]

\* DrawablePath::getBounds
getBounds(d, parent) ==
    IF isStrokeVisible(d)
    THEN LET s == getStrokePath(d, parent) IN [obj |-> s.obj, ret |-> PathBounds(s.ret)]
    ELSE LET p == getPath(d, parent) IN [obj |-> p.obj, ret |-> PathBounds(p.ret)]

\* DrawablePath::hitTest
hitTest(d, x, parent) ==
    LET p == getPath(d, parent)
    IN IF contains(p.ret, x) THEN [obj |-> p.obj, ret |-> TRUE]
       ELSE IF isStrokeVisible(p.obj)
            THEN LET s == getStrokePath(p.obj, parent)
                 IN [obj |-> s.obj, ret |-> contains(s.ret, x)]
            ELSE [obj |-> p.obj, ret |-> FALSE]

\* DrawablePath::createCopy
createCopy(d) == DrawablePathCopy(d)

\* -------------------------------------------------------- ValueTreeWrapper
\* A tree of type "Path": the properties id, strokeWidth, jointStyle and
\* capStyle, the children Fill and Stroke, and the segment nodes of the
\* child Path.

\* ValueTreeWrapper::getMainFill
getMainFill(tree) == readFillType(tree.Fill)

\* ValueTreeWrapper::setMainFill
setMainFill(tree, newFill) == [tree EXCEPT !.Fill = writeFillType(newFill)]

\* ValueTreeWrapper::getStrokeFill
getStrokeFill(tree) == readFillType(tree.Stroke)

\* ValueTreeWrapper::setStrokeFill
setStrokeFillOfTree(tree, newFill) == [tree EXCEPT !.Stroke = writeFillType(newFill)]

\* getStrokeType looking for "beveled" and "rounded", which setStrokeType
\* does not write.
getStrokeTypeLongNames(tree) ==
    PathStrokeType(tree.strokeWidth,
                   IF tree.jointStyle = "curved" THEN "curved"
                   ELSE IF tree.jointStyle = "beveled" THEN "beveled" ELSE "mitered",
                   IF tree.capStyle = "square" THEN "square"
                   ELSE IF tree.capStyle = "rounded" THEN "rounded" ELSE "butt")

\* ValueTreeWrapper::getStrokeType
getStrokeType(tree) ==
    PathStrokeType(tree.strokeWidth,
                   IF tree.jointStyle = "curved" THEN "curved"
                   ELSE IF tree.jointStyle = "bevel" THEN "beveled" ELSE "mitered",
                   IF tree.capStyle = "square" THEN "square"
                   ELSE IF tree.capStyle = "round" THEN "rounded" ELSE "butt")

\* setStrokeType writing "bevelled" and "rounded", which getStrokeType
\* does not know.
setStrokeTypeOfTreeMisspelt(tree, newStrokeType) ==
    [tree EXCEPT
        !.strokeWidth = newStrokeType.thickness,
        !.jointStyle = IF newStrokeType.jointStyle = "mitered" THEN "miter"
                       ELSE IF newStrokeType.jointStyle = "curved" THEN "curved"
                       ELSE "bevelled",
        !.capStyle = IF newStrokeType.endStyle = "butt" THEN "butt"
                     ELSE IF newStrokeType.endStyle = "square" THEN "square"
                     ELSE "rounded"]

\* ValueTreeWrapper::setStrokeType
setStrokeTypeOfTree(tree, newStrokeType) ==
    [tree EXCEPT
        !.strokeWidth = newStrokeType.thickness,
        !.jointStyle = IF newStrokeType.jointStyle = "mitered" THEN "miter"
                       ELSE IF newStrokeType.jointStyle = "curved" THEN "curved"
                       ELSE "bevel",
        !.capStyle = IF newStrokeType.endStyle = "butt" THEN "butt"
                     ELSE IF newStrokeType.endStyle = "square" THEN "square"
                     ELSE "round"]

\* ValueTree tree (valueTreeType): a tree of type "Path" with nothing set
ValueTree ==
    [type |-> "Path", id |-> "", Fill |-> [type |-> "", colour |-> ""],
     Stroke |-> [type |-> "", colour |-> ""],
     strokeWidth |-> 0, jointStyle |-> "", capStyle |-> "", Path |-> <<>>]

\* The trees refreshFromValueTree is given.
Trees ==
    {[type |-> "Path", id |-> "",
      Fill |-> writeFillType(f), Stroke |-> writeFillType(sf),
      strokeWidth |-> t, jointStyle |-> "miter", capStyle |-> "butt", Path |-> segs] :
        f \in Fills, sf \in Fills, t \in Thicknesses,
        segs \in SegmentLists}

\* The concrete paths setPath is given.
Paths ==
    {createPath(RelativePointPathFromTree([Path |-> segs]), p) :
        segs \in SegmentLists, p \in Parents}

\* ----------------------------------------------------- refreshFromValueTree
\* Lines 444-456: adopt a fill that differs.
adoptFills(d, newFill, newStrokeFill) ==
    [d EXCEPT !.mainFill = IF d.mainFill # newFill THEN newFill ELSE @,
              !.strokeFill = IF d.strokeFill # newStrokeFill THEN newStrokeFill ELSE @]

\* Lines 465-466 left out: the relative path is always kept.
newRelativePathKept(rp) == <<rp>>

\* Lines 465-466: a relative path with no dynamic point is dropped.
newRelativePathOf(rp) == IF ~containsAnyDynamicPoints(rp) THEN <<>> ELSE <<rp>>

\* Line 468 without its second operand: the paths are not compared.
geometryDiffersByStrokeOnly(d, newStroke, newPath) == d.strokeType # newStroke

\* Line 468: the stroke descriptor or the path differs from the cached one.
geometryDiffers(d, newStroke, newPath) ==
    d.strokeType # newStroke \/ d.path # newPath

\* Lines 470-474: capture the bounds, swap the path in, adopt the stroke.
adoptGeometry(d, newStroke, newPath, parent) ==
    LET b == getBounds(d, parent)
    IN [obj |-> [b.obj EXCEPT !.path = newPath, !.strokeNeedsUpdating = TRUE,
                              !.strokeType = newStroke],
        ret |-> b.ret]

\* Lines 479-482 without the union with the new bounds.
damageOfOldBoundsOnly(d, damageRect, needsRedraw, parent) ==
    [obj |-> d, ret |-> damageRect]

\* Lines 479-482 with the test of needsRedraw left out.
damageOfAlways(d, damageRect, needsRedraw, parent) ==
    LET b == getBounds(d, parent)
    IN [obj |-> b.obj, ret |-> getUnion(damageRect, b.ret)]

\* Lines 479-482: the rectangle returned.
damageOf(d, damageRect, needsRedraw, parent) ==
    IF needsRedraw
    THEN LET b == getBounds(d, parent)
         IN [obj |-> b.obj, ret |-> getUnion(damageRect, b.ret)]
    ELSE [obj |-> d, ret |-> damageRect]

\* DrawablePath::refreshFromValueTree
refreshFromValueTree(d, tree, parent) ==
    LET newFill == getMainFill(tree)
        newStrokeFill == getStrokeFill(tree)
        fillsDiffer == d.mainFill # newFill \/ d.strokeFill # newStrokeFill
        d1 == adoptFills([d EXCEPT !.name = tree.id], newFill, newStrokeFill)
        newStroke == getStrokeType(tree)
        rp == RelativePointPathFromTree(tree)
        newPath == createPath(rp, parent)
        differs == geometryDiffers(d1, newStroke, newPath)
        g == IF differs THEN adoptGeometry(d1, newStroke, newPath, parent)
             ELSE [obj |-> d1, ret |-> Rectangle]
        d2 == [g.obj EXCEPT !.relativePath = newRelativePathOf(rp)]
    IN damageOf(d2, g.ret, fillsDiffer \/ differs, parent)

\* DrawablePath::createValueTree
createValueTree(d) ==
    LET t1 == [ValueTree EXCEPT !.id = d.name]
        t2 == setMainFill(t1, d.mainFill)
        t3 == setStrokeFillOfTree(t2, d.strokeFill)
        t4 == setStrokeTypeOfTree(t3, d.strokeType)
    IN [t4 EXCEPT !.Path = IF d.relativePath # <<>>
                           THEN writeTo(d.relativePath[1])
                           ELSE writeTo(RelativePointPathFromPath(d.path))]

\* ------------------------------------------------------------------ state
\* d       the DrawablePath under test
\* parent  the value of the coordinate "a" in the parent context
\* last    the last operation: its name, its argument (the tree of a
\*         refreshFromValueTree), what it returned and, for
\*         refreshFromValueTree, which observable properties it found changed
\*         and whether it repeats the call before it
\* given   <<P>> while setPath (P) is the last mutating operation, else <<>>
\* run     the createStrokedPath calls made by the getStrokePath calls that
\*         directly follow an invalidating operation; -1 once any other
\*         operation has been called
\* copy    <<c>> once createCopy has made the copy c that is operated on
\*         beside d, else <<>>
\* heap    the RelativePointPath objects on the heap: the address each of
\*         the two DrawablePaths holds in relativePath (0 when null) and
\*         the addresses deleted
\* state   the ValueTree a ValueTreeWrapper wraps
\* element the ValueTree node an Element wraps and the sibling before it
VARIABLES d, parent, last, given, run, copy, heap, state, element

vars == <<d, parent, last, given, run, copy, heap, state, element>>

\* What the operations on d alone leave as it is.
aside == <<copy, heap, state, element>>

\* The counters of the operation in progress start at zero.
Begin(obj) ==
    [obj EXCEPT !.createPathCalls = 0, !.createStrokedPathCalls = 0,
                !.strokedBeforePath = FALSE]

Called(op, ret) ==
    [op |-> op, arg |-> <<>>, ret |-> ret, changed |-> "", again |-> FALSE]

\* No copy, nothing on the heap, no tree or element wrapped.
NoCopy ==
    /\ copy = <<>>
    /\ heap = [d |-> 0, copy |-> 0, freed |-> {}]

NoTree ==
    /\ state = ValueTree
    /\ element = [state |-> [type |-> ""], previous |-> <<>>]

Init ==
    /\ d = DrawablePath
    /\ parent \in Parents
    /\ last = Called("DrawablePath", <<>>)
    /\ given = <<>>
    /\ run = -1
    /\ NoCopy
    /\ NoTree

SetPath ==
    \E newPath \in Paths :
        /\ d' = setPath(Begin(d), newPath)
        /\ last' = Called("setPath", <<>>)
        /\ given' = <<newPath>>
        /\ run' = 0
        /\ UNCHANGED parent
        /\ UNCHANGED aside

SetFill ==
    \E newFill \in Fills :
        /\ d' = setFill(Begin(d), newFill)
        /\ last' = Called("setFill", <<>>)
        /\ given' = <<>>
        /\ run' = -1
        /\ UNCHANGED parent
        /\ UNCHANGED aside

SetStrokeFill ==
    \E newFill \in Fills :
        /\ d' = setStrokeFill(Begin(d), newFill)
        /\ last' = Called("setStrokeFill", <<>>)
        /\ given' = <<>>
        /\ run' = -1
        /\ UNCHANGED parent
        /\ UNCHANGED aside

SetStrokeType ==
    \E newStrokeType \in StrokeTypes :
        /\ d' = setStrokeType(Begin(d), newStrokeType)
        /\ last' = [Called("setStrokeType", <<>>) EXCEPT !.arg = newStrokeType]
        /\ given' = <<>>
        /\ run' = 0
        /\ UNCHANGED parent
        /\ UNCHANGED aside

SetStrokeThickness ==
    \E newThickness \in Thicknesses :
        /\ d' = setStrokeThickness(Begin(d), newThickness)
        /\ last' = [Called("setStrokeThickness", <<>>) EXCEPT !.arg = newThickness]
        /\ given' = <<>>
        /\ run' = 0
        /\ UNCHANGED parent
        /\ UNCHANGED aside

InvalidatePoints ==
    /\ d' = invalidatePoints(Begin(d))
    /\ last' = Called("invalidatePoints", <<>>)
    /\ given' = <<>>
    /\ run' = 0
    /\ UNCHANGED parent
    /\ UNCHANGED aside

GetPath ==
    /\ LET r == getPath(Begin(d), parent)
       IN /\ d' = r.obj
          /\ last' = [Called("getPath", r.ret) EXCEPT !.again = last.op = "getPath"]
    /\ run' = -1
    /\ UNCHANGED <<parent, given>>
    /\ UNCHANGED aside

GetStrokePath ==
    /\ LET r == getStrokePath(Begin(d), parent)
       IN /\ d' = r.obj
          /\ last' = Called("getStrokePath", r.ret)
          /\ run' = IF run = -1 THEN -1 ELSE run + r.obj.createStrokedPathCalls
    /\ UNCHANGED <<parent, given>>
    /\ UNCHANGED aside

Render ==
    /\ LET r == render(Begin(d), parent)
       IN /\ d' = r.obj
          /\ last' = Called("render", r.ret)
    /\ run' = -1
    /\ UNCHANGED <<parent, given>>
    /\ UNCHANGED aside

GetBounds ==
    /\ LET r == getBounds(Begin(d), parent)
       IN /\ d' = r.obj
          /\ last' = Called("getBounds", r.ret)
    /\ run' = -1
    /\ UNCHANGED <<parent, given>>
    /\ UNCHANGED aside

HitTest ==
    /\ \E x \in Parents :
        LET r == hitTest(Begin(d), x, parent)
        IN /\ d' = r.obj
           /\ last' = Called("hitTest", r.ret)
    /\ run' = -1
    /\ UNCHANGED <<parent, given>>
    /\ UNCHANGED aside

\* What a refreshFromValueTree (tree) finds changed, as a caller can observe
\* it: "geometry" when the stroke descriptor differs or the path getPath()
\* returns differs from the path the tree resolves to; otherwise "mainFill"
\* when the main fill alone differs, "fills" when the stroke fill differs,
\* "nothing" when nothing does.
changedBy(obj, tree, ctx) ==
    IF \/ obj.strokeType # getStrokeType(tree)
       \/ getPath(obj, ctx).ret # createPath(RelativePointPathFromTree(tree), ctx)
    THEN "geometry"
    ELSE IF obj.strokeFill # getStrokeFill(tree) THEN "fills"
    ELSE IF obj.mainFill # getMainFill(tree) THEN "mainFill"
    ELSE "nothing"

RefreshFromValueTree ==
    \E tree \in Trees :
        LET r == refreshFromValueTree(Begin(d), tree, parent)
            changed == changedBy(d, tree, parent)
        IN /\ d' = r.obj
           /\ last' = [op |-> "refreshFromValueTree", arg |-> tree, ret |-> r.ret,
                       changed |-> changed,
                       again |-> last.op = "refreshFromValueTree" /\ last.arg = tree]
           /\ given' = <<>>
           /\ run' = IF changed = "geometry" THEN 0 ELSE -1
           /\ UNCHANGED parent
           /\ UNCHANGED aside

CreateValueTree ==
    /\ d' = Begin(d)
    /\ last' = Called("createValueTree", createValueTree(d))
    /\ run' = -1
    /\ UNCHANGED <<parent, given>>
    /\ UNCHANGED aside

CreateCopy ==
    /\ d' = Begin(d)
    /\ last' = Called("createCopy", createCopy(d))
    /\ run' = -1
    /\ UNCHANGED <<parent, given>>
    /\ UNCHANGED aside

\* Drawable::createFromValueTree on the tree createValueTree has just
\* returned: a new DrawablePath, then refreshFromValueTree on it.
CreateFromValueTree ==
    /\ last.op = "createValueTree"
    /\ last' = [Called("createFromValueTree",
                       refreshFromValueTree(DrawablePath, last.ret, parent).obj)
                    EXCEPT !.arg = last.ret]
    /\ UNCHANGED <<d, parent, given, run>>
    /\ UNCHANGED aside

\* The parent context moves its coordinate "a".
ParentMoved ==
    \E a \in Parents \ {parent} :
        /\ parent' = a
        /\ d' = Begin(d)
        /\ last' = Called("parentMoved", <<>>)
        /\ given' = <<>>
        /\ run' = -1
        /\ UNCHANGED aside

Next ==
    \/ SetPath
    \/ SetFill
    \/ SetStrokeFill
    \/ SetStrokeType
    \/ SetStrokeThickness
    \/ InvalidatePoints
    \/ GetPath
    \/ GetStrokePath
    \/ Render
    \/ GetBounds
    \/ HitTest
    \/ RefreshFromValueTree
    \/ CreateValueTree
    \/ CreateCopy
    \/ CreateFromValueTree
    \/ ParentMoved

Spec == Init /\ [][Next]_vars

\* ----------------------------------------------------------------- claims
TheStroke(obj, path) ==
    createStrokedPath(obj.strokeType, path, "identity", StrokeTolerance)

\* C1: after setPath (P), with no other mutating operation in between,
\* getPath() returns P and getStrokePath() returns the stroke of P under the
\* current stroke descriptor.
SetPathIsRead ==
    given # <<>> =>
        /\ last.op = "getPath" => last.ret = given[1]
        /\ last.op = "getStrokePath" => last.ret = TheStroke(d, given[1])

\* C2: the getStrokePath calls that directly follow one invalidating
\* operation run createStrokedPath at most once in total.
StrokeGeneratedOncePerInvalidation == run <= 1

\* C3: a getPath() that directly follows a getPath() returns the same path
\* and regenerates nothing; no getPath() regenerates the path more than
\* once, nor at all when relativePath is null or pathNeedsUpdating is false.
GetPathTwice ==
    [][last'.op = "getPath" =>
        /\ d'.createPathCalls <= 1
        /\ (d.relativePath = <<>> \/ ~d.pathNeedsUpdating) => d'.createPathCalls = 0
        /\ last.op = "getPath" => (last'.ret = last.ret /\ d'.createPathCalls = 0)]_vars

\* C3 happens: a second getPath() in a row on an object owning a relative path.
GetPathTwiceHappens ==
    last.op = "getPath" /\ last.again /\ d.relativePath # <<>>

\* C4: in every state getStrokePath() returns the stroke, under the current
\* stroke descriptor, of the path getPath() returns.
StrokeIsOfPath ==
    getStrokePath(d, parent).ret = TheStroke(d, getPath(d, parent).ret)

\* C4 happens: a cached, non-empty stroke is served as it is.
StrokeIsOfPathHappens ==
    ~d.strokeNeedsUpdating /\ d.stroke # <<>> /\ last.op = "getBounds"

\* The path a tree resolves to in a parent context.
PathOfTree(tree, ctx) == createPath(RelativePointPathFromTree(tree), ctx)

\* C5: after refreshFromValueTree (tree) the fills and the stroke descriptor
\* are those decoded from the tree, and getPath() is the tree's path
\* resolved in the current parent context.
RefreshMatchesTree ==
    last.op = "refreshFromValueTree" =>
        /\ d.mainFill = getMainFill(last.arg)
        /\ d.strokeFill = getStrokeFill(last.arg)
        /\ d.strokeType = getStrokeType(last.arg)
        /\ getPath(d, parent).ret = PathOfTree(last.arg, parent)

\* C5 happens: a refreshFromValueTree that changed the geometry and the
\* main fill of the object and left it owning a relative path.
RefreshMatchesTreeHappens ==
    /\ last.op = "refreshFromValueTree"
    /\ last.changed = "geometry"
    /\ d.relativePath # <<>>
    /\ d.mainFill = Transparent

\* A rectangle covers the area of another one.
Covers(outer, inner) ==
    \/ isEmpty(inner)
    \/ /\ ~isEmpty(outer)
       /\ outer.x <= inner.x
       /\ inner.x + inner.w <= outer.x + outer.w

\* C6: when refreshFromValueTree changes the path or the stroke descriptor,
\* the rectangle it returns covers the bounds getBounds() would have
\* returned before the call and the bounds it returns after it.
DamageCoversOldAndNewBounds ==
    [][(last'.op = "refreshFromValueTree" /\ last'.changed = "geometry") =>
        /\ Covers(last'.ret, getBounds(d, parent).ret)
        /\ Covers(last'.ret, getBounds(d', parent').ret)]_vars

\* C7: a refreshFromValueTree that finds only the main fill changed returns
\* the bounds getBounds() returns after it.
FillChangeDamagesBounds ==
    (last.op = "refreshFromValueTree" /\ last.changed = "mainFill") =>
        last.ret = getBounds(d, parent).ret

\* C7 happens: only the main fill changed, on an object of non-empty bounds.
FillChangeDamagesBoundsHappens ==
    /\ last.op = "refreshFromValueTree"
    /\ last.changed = "mainFill"
    /\ ~isEmpty(getBounds(d, parent).ret)

\* C8: a refreshFromValueTree that repeats the call before it (same tree,
\* same parent context) returns the empty rectangle and leaves the fills,
\* the stroke descriptor, the cached path and both dirty flags as they were.
RefreshIsIdempotent ==
    [][(last'.op = "refreshFromValueTree" /\ last'.again) =>
        /\ last'.ret = Rectangle
        /\ d'.mainFill = d.mainFill
        /\ d'.strokeFill = d.strokeFill
        /\ d'.strokeType = d.strokeType
        /\ d'.path = d.path
        /\ d'.pathNeedsUpdating = d.pathNeedsUpdating
        /\ d'.strokeNeedsUpdating = d.strokeNeedsUpdating]_vars

\* C8 happens: a repeated refreshFromValueTree of a tree with a visible
\* stroke, on an object owning a relative path.
RefreshIsIdempotentHappens ==
    /\ last.op = "refreshFromValueTree"
    /\ last.again
    /\ d.relativePath # <<>>
    /\ isStrokeVisible(d)

OwnsOnlyDynamic(obj) ==
    obj.relativePath # <<>> => containsAnyDynamicPoints(obj.relativePath[1])

\* C9: a DrawablePath owns a relativePath only if it has a dynamic point:
\* refreshFromValueTree leaves relativePath null exactly when the tree's
\* relative path has no dynamic point, and a copy owns one only if dynamic.
RelativePathOnlyIfDynamic ==
    /\ OwnsOnlyDynamic(d)
    /\ last.op \in {"createCopy", "createFromValueTree"} => OwnsOnlyDynamic(last.ret)
    /\ last.op = "refreshFromValueTree" =>
          (d.relativePath = <<>>
              <=> ~containsAnyDynamicPoints(RelativePointPathFromTree(last.arg)))

\* C9 happens: refreshFromValueTree of a tree whose points are all constant
\* drops the relative path of an object that owned one.
RelativePathOnlyIfDynamicHappens ==
    /\ last.op = "refreshFromValueTree"
    /\ Len(last.arg.Path) > 0
    /\ d.relativePath = <<>>
    /\ d.createPathCalls > 0

\* ------------------------------------------------------------ round trip
\* A DrawablePath with no relative path, as the setters leave it: any path,
\* fills and stroke descriptor (every joint and end-cap style).
StaticDrawablePaths ==
    {setStrokeType(setStrokeFill(setFill(setPath(DrawablePath, p), f), sf), st) :
        p \in Paths, f \in Fills, sf \in Fills, st \in AllStrokeTypes}

RoundTripInit ==
    /\ d \in StaticDrawablePaths
    /\ parent \in Parents
    /\ last = Called("setStrokeType", <<>>)
    /\ given = <<>>
    /\ run = 0
    /\ NoCopy
    /\ NoTree

RoundTripNext ==
    \/ GetStrokePath
    \/ CreateValueTree
    \/ CreateFromValueTree

RoundTripSpec == RoundTripInit /\ [][RoundTripNext]_vars

\* C10: for a DrawablePath with no relative path, createValueTree and then
\* refreshFromValueTree of that tree on a new DrawablePath give an object
\* whose getPath(), stroke descriptor and fills equal the original's and
\* whose relativePath is null.
RoundTrip ==
    (last.op = "createFromValueTree" /\ d.relativePath = <<>>) =>
        /\ getPath(last.ret, parent).ret = getPath(d, parent).ret
        /\ last.ret.strokeType = d.strokeType
        /\ last.ret.mainFill = d.mainFill
        /\ last.ret.strokeFill = d.strokeFill
        /\ last.ret.relativePath = <<>>

\* C10 happens: the round trip of an object with a path, a transparent main
\* fill and a beveled, rounded stroke.
RoundTripHappens ==
    /\ last.op = "createFromValueTree"
    /\ d.relativePath = <<>>
    /\ Len(d.path) > 0
    /\ d.mainFill = Transparent
    /\ d.strokeType = PathStrokeType(2, "beveled", "rounded")

\* -------------------------------------------------- stroke visibility
\* The points a hit test is asked about: from left of every outline to
\* right of every outline.
HitPoints == (0 - 1) .. (MaxAnchor + 1)

\* The stroke takes no part: zero thickness or a fully transparent fill.
StrokeHidden(obj) ==
    obj.strokeType.thickness = 0 \/ obj.strokeFill = Transparent

\* C11: in every state, when the stroke thickness is 0 or the stroke fill
\* is fully transparent, getBounds() is the bounds of getPath() and
\* hitTest (x) is getPath().contains (x); otherwise getBounds() is the
\* bounds of getStrokePath() and hitTest (x) holds exactly when x is inside
\* the path or inside the stroke outline.
StrokeVisibilityGates ==
    \A x \in HitPoints :
        IF StrokeHidden(d)
        THEN /\ getBounds(d, parent).ret = PathBounds(getPath(d, parent).ret)
             /\ hitTest(d, x, parent).ret = contains(getPath(d, parent).ret, x)
        ELSE /\ getBounds(d, parent).ret = PathBounds(getStrokePath(d, parent).ret)
             /\ hitTest(d, x, parent).ret =
                    (\/ contains(getPath(d, parent).ret, x)
                     \/ contains(getStrokePath(d, parent).ret, x))

\* C11 happens: getBounds() on an object with a path, a stroke two wide and
\* a transparent stroke fill.
StrokeVisibilityGatesHappens ==
    /\ last.op = "getBounds"
    /\ Len(d.path) = 2
    /\ d.strokeType.thickness = 2
    /\ d.strokeFill = Transparent
    /\ last.ret = PathBounds(d.path)

\* The operations that end with the stroke they generated.
StrokeReaders == {"getStrokePath", "render", "getBounds", "hitTest"}

\* C16: no createStrokedPath call is made with pathNeedsUpdating set or on a
\* path other than the one getPath() returns at that moment; an operation
\* that generated the stroke last leaves pathNeedsUpdating clear and the
\* stroke that of the path getPath() returns.
StrokeAfterPath ==
    /\ ~d.strokedBeforePath
    /\ (last.op \in StrokeReaders /\ d.createStrokedPathCalls > 0) =>
          /\ ~d.pathNeedsUpdating
          /\ d.stroke = TheStroke(d, getPath(d, parent).ret)

\* C16 happens: a getStrokePath() that regenerated the path from the
\* relative path and then generated a stroke from it.
StrokeAfterPathHappens ==
    /\ last.op = "getStrokePath"
    /\ d.createPathCalls = 1
    /\ d.createStrokedPathCalls = 1
    /\ d.stroke # <<>>

\* C17: render leaves mainFill, strokeFill, strokeType and relativePath as
\* they were; it fills getPath() with the main fill first and then, only
\* when the stroke is visible, getStrokePath() with the stroke fill; and
\* while the stroke is not visible, render, getBounds and hitTest generate
\* no stroke and leave the cached stroke and strokeNeedsUpdating as they were.
RenderOnlyRecomputes ==
    [][/\ last'.op = "render" =>
            /\ d'.mainFill = d.mainFill
            /\ d'.strokeFill = d.strokeFill
            /\ d'.strokeType = d.strokeType
            /\ d'.relativePath = d.relativePath
            /\ last'.ret[1] = [fill |-> d.mainFill, path |-> getPath(d, parent).ret]
            /\ IF StrokeHidden(d)
               THEN Len(last'.ret) = 1
               ELSE /\ Len(last'.ret) = 2
                    /\ last'.ret[2] = [fill |-> d.strokeFill,
                                       path |-> getStrokePath(d, parent).ret]
       /\ (last'.op \in {"render", "getBounds", "hitTest"} /\ StrokeHidden(d)) =>
            /\ d'.createStrokedPathCalls = 0
            /\ d'.stroke = d.stroke
            /\ d'.strokeNeedsUpdating = d.strokeNeedsUpdating]_vars

\* C17 happens: render of an object with a stroke two wide and a transparent
\* stroke fill regenerated the path from the relative path and filled it
\* alone, the stroke still to be generated.
RenderOnlyRecomputesHappens ==
    /\ last.op = "render"
    /\ Len(last.ret) = 1
    /\ d.strokeType.thickness = 2
    /\ d.strokeFill = Transparent
    /\ d.createPathCalls = 1
    /\ Len(d.path) = 2
    /\ d.strokeNeedsUpdating

\* C19: between operations pathNeedsUpdating implies strokeNeedsUpdating,
\* in the object, in a copy of it and in an object made from its tree; and
\* a getPath() that rebuilt the path from the relative path returns with
\* strokeNeedsUpdating set and pathNeedsUpdating clear.
PathDirtyImpliesStrokeDirty ==
    /\ d.pathNeedsUpdating => d.strokeNeedsUpdating
    /\ last.op \in {"createCopy", "createFromValueTree"} =>
          (last.ret.pathNeedsUpdating => last.ret.strokeNeedsUpdating)
    /\ (last.op = "getPath" /\ d.createPathCalls > 0) =>
          (d.strokeNeedsUpdating /\ ~d.pathNeedsUpdating)

\* C19 happens: getPath() has rebuilt the path of an object with a cached
\* stroke: the stroke flag is set, the path flag clear.
PathDirtyImpliesStrokeDirtyHappens ==
    /\ last.op = "getPath"
    /\ d.createPathCalls = 1
    /\ d.strokeNeedsUpdating
    /\ ~d.pathNeedsUpdating
    /\ d.stroke # <<>>

\* ------------------------------------------------------ stroke setters
\* Trees with a transparent main fill and a black stroke fill.
StyledTrees ==
    {t \in Trees : /\ t.Fill = writeFillType(Transparent)
                   /\ t.Stroke = writeFillType(Black)
                   /\ t.strokeWidth = 2}

\* A DrawablePath after refreshFromValueTree and setStrokeType with a
\* descriptor of any joint and end-cap style.
StrokeInit ==
    /\ parent \in Parents
    /\ \E t \in StyledTrees, st \in AllStrokeTypes :
        /\ d = Begin(setStrokeType(refreshFromValueTree(DrawablePath, t, parent).obj, st))
        /\ last = [Called("setStrokeType", <<>>) EXCEPT !.arg = st]
    /\ given = <<>>
    /\ run = 0
    /\ NoCopy
    /\ NoTree

\* setStrokeType with a descriptor of any joint and end-cap style.
SetStrokeTypeOfAnyStyle ==
    \E newStrokeType \in AllStrokeTypes :
        /\ d' = setStrokeType(Begin(d), newStrokeType)
        /\ last' = [Called("setStrokeType", <<>>) EXCEPT !.arg = newStrokeType]
        /\ given' = <<>>
        /\ run' = 0
        /\ UNCHANGED parent
        /\ UNCHANGED aside

StrokeNext ==
    \/ SetStrokeTypeOfAnyStyle
    \/ SetStrokeThickness
    \/ InvalidatePoints
    \/ GetPath
    \/ GetStrokePath

StrokeSpec == StrokeInit /\ [][StrokeNext]_vars

\* C12: setStrokeThickness and setStrokeType set strokeNeedsUpdating and
\* leave pathNeedsUpdating, the cached path, relativePath and both fills as
\* they were, so getPath() returns the same path as before; setStrokeType
\* adopts the descriptor given, setStrokeThickness the thickness given with
\* the joint and end-cap styles kept; and the next getStrokePath() is the
\* stroke of that path under the new descriptor.
StrokeSettersMarkOnlyStroke ==
    [][last'.op \in {"setStrokeThickness", "setStrokeType"} =>
        LET newStrokeType ==
                IF last'.op = "setStrokeType" THEN last'.arg
                ELSE PathStrokeType(last'.arg, d.strokeType.jointStyle,
                                    d.strokeType.endStyle)
        IN /\ d'.strokeNeedsUpdating
           /\ d'.pathNeedsUpdating = d.pathNeedsUpdating
           /\ d'.path = d.path
           /\ d'.relativePath = d.relativePath
           /\ d'.mainFill = d.mainFill
           /\ d'.strokeFill = d.strokeFill
           /\ d'.strokeType = newStrokeType
           /\ getPath(d', parent').ret = getPath(d, parent).ret
           /\ getStrokePath(d', parent').ret =
                  createStrokedPath(newStrokeType, getPath(d, parent).ret,
                                    "identity", StrokeTolerance)]_vars

\* C12 happens: setStrokeThickness (2) on an object with a beveled, rounded
\* stroke of thickness 0, a relative path and an up-to-date path and stroke.
StrokeSettersMarkOnlyStrokeHappens ==
    /\ last.op = "setStrokeThickness"
    /\ d.strokeType = PathStrokeType(2, "beveled", "rounded")
    /\ d.relativePath # <<>>
    /\ ~d.pathNeedsUpdating
    /\ Len(d.path) = 2
    /\ d.stroke = <<>>

\* ------------------------------------------------------------- the copy
\* The addresses a RelativePointPath can be allocated at: each of the two
\* DrawablePaths owns at most one, and refreshFromValueTree allocates the
\* new one before the old one is deleted.
Addresses == 1..3

\* operator new: the lowest address no object holds.
freeAddress(h) == Lowest(Addresses \ {h.d, h.copy})

\* Lines 52-53 with the pointer itself copied instead of the object.
copyOfRelativePathShared(otherAt, free) == otherAt

\* Lines 52-53: the address the copy holds in relativePath, a new
\* RelativePointPath when the other object owns one.
copyOfRelativePath(otherAt, free) == IF otherAt # 0 THEN free ELSE 0

\* Lines 460-477: refreshFromValueTree allocates newRelativePath, deletes
\* it again when it has no dynamic point (owns is false), and assigns it to
\* relativePath, which deletes the object held before (none when null).
\* freed keeps the deleted addresses some object still holds.
heapAfterRefresh(h, who, owns) ==
    LET held == [h EXCEPT ![who] = IF owns THEN freeAddress(h) ELSE 0]
    IN [held EXCEPT !.freed = ((h.freed \cup {h[who]}) \cap {held.d, held.copy}) \ {0}]

\* The two objects, by name.
Objects == {"d", "copy"}
Object(who) == IF who = "d" THEN d ELSE copy[1]
Exists(who) == who = "d" \/ copy # <<>>

\* The object who becomes obj; the other one is not touched.
Becomes(who, obj) ==
    IF who = "d" THEN d' = obj /\ copy' = copy
    ELSE copy' = <<obj>> /\ d' = d

CalledOn(who, op, ret) == [Called(op, ret) EXCEPT !.arg = who]

\* The trees and the path the two objects are given.
CopyTrees ==
    {t \in StyledTrees : Len(t.Path) > 0}

\* createCopy: the copy constructor, with the original as its argument.
MakeCopy ==
    /\ copy = <<>>
    /\ copy' = <<createCopy(d)>>
    /\ heap' = [heap EXCEPT !.copy = copyOfRelativePath(heap.d, freeAddress(heap))]
    /\ d' = Begin(d)
    /\ last' = CalledOn("d", "createCopy", <<>>)
    /\ UNCHANGED <<parent, given, run, state, element>>

SetPathOf ==
    \E who \in Objects :
        /\ Exists(who)
        /\ Becomes(who, setPath(Begin(Object(who)), <<>>))
        /\ last' = CalledOn(who, "setPath", <<>>)
        /\ UNCHANGED <<parent, given, run, heap, state, element>>

InvalidatePointsOf ==
    \E who \in Objects :
        /\ Exists(who)
        /\ Becomes(who, invalidatePoints(Begin(Object(who))))
        /\ last' = CalledOn(who, "invalidatePoints", <<>>)
        /\ UNCHANGED <<parent, given, run, heap, state, element>>

GetStrokePathOf ==
    \E who \in Objects :
        /\ Exists(who)
        /\ LET r == getStrokePath(Begin(Object(who)), parent)
           IN /\ Becomes(who, r.obj)
              /\ last' = CalledOn(who, "getStrokePath", r.ret)
        /\ UNCHANGED <<parent, given, run, heap, state, element>>

RefreshFromValueTreeOf ==
    \E who \in Objects, t \in CopyTrees :
        /\ Exists(who)
        /\ LET r == refreshFromValueTree(Begin(Object(who)), t, parent)
           IN /\ Becomes(who, r.obj)
              /\ heap' = heapAfterRefresh(heap, who, r.obj.relativePath # <<>>)
              /\ last' = CalledOn(who, "refreshFromValueTree", r.ret)
        /\ UNCHANGED <<parent, given, run, state, element>>

CopyNext ==
    \/ MakeCopy
    \/ SetPathOf
    \/ InvalidatePointsOf
    \/ GetStrokePathOf
    \/ RefreshFromValueTreeOf

CopySpec == Init /\ [][CopyNext]_vars

\* The path, the stroke, both flags and the relative path of an object.
Caches(obj) ==
    <<obj.path, obj.stroke, obj.pathNeedsUpdating, obj.strokeNeedsUpdating,
      obj.relativePath>>

\* C13: createCopy() leaves the original as it was and gives a copy with
\* both dirty flags set, the original's fills and stroke descriptor, and
\* either a RelativePointPath of its own equal to the original's or, when
\* the original owns none, the original's path; afterwards no operation on
\* one of the two changes the other's path, stroke, flags or relative
\* path, nor deletes the RelativePointPath the other holds.
CopyIsIndependent ==
    [][/\ last'.op = "createCopy" =>
            /\ Caches(d') = Caches(d)
            /\ heap'.d = heap.d
            /\ copy'[1].pathNeedsUpdating /\ copy'[1].strokeNeedsUpdating
            /\ copy'[1].mainFill = d.mainFill
            /\ copy'[1].strokeFill = d.strokeFill
            /\ copy'[1].strokeType = d.strokeType
            /\ IF d.relativePath # <<>>
               THEN /\ copy'[1].relativePath = d.relativePath
                    /\ heap'.copy \notin {0, heap.d}
               ELSE /\ copy'[1].relativePath = <<>>
                    /\ heap'.copy = 0
                    /\ copy'[1].path = d.path
       /\ (last'.op # "createCopy" /\ copy # <<>> /\ last'.arg = "d") =>
            /\ Caches(copy'[1]) = Caches(copy[1])
            /\ heap'.copy = heap.copy
            /\ heap'.copy \notin heap'.freed
       /\ (last'.op # "createCopy" /\ copy # <<>> /\ last'.arg = "copy") =>
            /\ Caches(d') = Caches(d)
            /\ heap'.d = heap.d
            /\ heap'.d \notin heap'.freed]_vars

\* C13 happens: the original of a copy that owns a relative path has
\* replaced its own by refreshFromValueTree, and the copy has then
\* regenerated its path and stroke from the one it owns.
CopyIsIndependentHappens ==
    /\ copy # <<>>
    /\ last.op = "getStrokePath"
    /\ last.arg = "copy"
    /\ copy[1].relativePath # <<>>
    /\ copy[1].createPathCalls = 1
    /\ heap.d \notin {0, 1}

\* ---------------------------------------------------------------- Element
\* RelativePoint::toString and RelativePoint (const String&): the text of a
\* point and the point a text stands for; the empty text of a missing
\* property stands for the default point.
toString(p) == <<p.anchor, p.off>>
RelativePointOfString(s) ==
    IF s = <<>> THEN RelativePoint("", 0) ELSE RelativePoint(s[1], s[2])

\* ValueTree (type): a node of that type with no property set.  The invalid
\* ValueTree has the type "".
Node(type) == [type |-> type, p1 |-> <<>>, p2 |-> <<>>, p3 |-> <<>>]

\* Element::Element (state): previous is the sibling before state in its
\* parent, <<>> when there is none.
Element(node, previous) == [state |-> node, previous |-> previous]

\* Element::getPreviousElement
getPreviousElement(e) ==
    Element(IF e.previous = <<>> THEN Node("") ELSE e.previous[1], <<>>)

\* Element::getNumControlPoints
getNumControlPoints(e) ==
    IF e.state.type \in {"Move", "Line"} THEN 1
    ELSE IF e.state.type = "Quad" THEN 2
    ELSE IF e.state.type = "Cubic" THEN 3
    ELSE 0

\* Element::getControlPoint
getControlPoint(e, index) ==
    RelativePointOfString(IF index = 0 THEN e.state.p1
                          ELSE IF index = 1 THEN e.state.p2 ELSE e.state.p3)

\* Element::setControlPoint
setControlPoint(e, index, point) ==
    IF index = 0 THEN [e EXCEPT !.state.p1 = toString(point)]
    ELSE IF index = 1 THEN [e EXCEPT !.state.p2 = toString(point)]
    ELSE [e EXCEPT !.state.p3 = toString(point)]

\* getEndPoint returning the first control point of every kind.
getEndPointFirstPoint(e) ==
    IF e.state.type \in {"Move", "Line", "Quad", "Cubic"}
    THEN getControlPoint(e, 0)
    ELSE RelativePoint("", 0)

\* Element::getEndPoint
getEndPoint(e) ==
    IF e.state.type \in {"Move", "Line"} THEN getControlPoint(e, 0)
    ELSE IF e.state.type = "Quad" THEN getControlPoint(e, 1)
    ELSE IF e.state.type = "Cubic" THEN getControlPoint(e, 2)
    ELSE RelativePoint("", 0)

\* Element::getStartPoint
getStartPoint(e) ==
    IF e.state.type = "Move" THEN getControlPoint(e, 0)
    ELSE getEndPoint(getPreviousElement(e))

\* Element::convertToLine: state becomes the new node, which has no parent.
convertToLine(e) ==
    IF e.state.type \in {"Quad", "Cubic"}
    THEN setControlPoint(Element(Node("Line"), <<>>), 0, getEndPoint(e))
    ELSE e

\* Element::convertToCubic
convertToCubic(e, nameFinder) ==
    IF e.state.type \in {"Line", "Quad"}
    THEN LET start == getStartPoint(e)
             end == getEndPoint(e)
             startResolved == resolve(start, nameFinder)
             endResolved == resolve(end, nameFinder)
             e0 == Element(Node("Cubic"), <<>>)
             e1 == setControlPoint(e0, 0,
                       RelativePoint("", startResolved
                           + ((endResolved - startResolved) * 3) \div 10))
             e2 == setControlPoint(e1, 1,
                       RelativePoint("", startResolved
                           + ((endResolved - startResolved) * 7) \div 10))
         IN setControlPoint(e2, 2, end)
    ELSE e

\* convertToPathBreak moving to the start point of the element.
convertToPathBreakAtStart(e) ==
    IF e.state.type # "Move"
    THEN setControlPoint(Element(Node("Move"), <<>>), 0, getStartPoint(e))
    ELSE e

\* Element::convertToPathBreak
convertToPathBreak(e) ==
    IF e.state.type # "Move"
    THEN setControlPoint(Element(Node("Move"), <<>>), 0, getEndPoint(e))
    ELSE e

\* The points of the segment nodes: a constant one and one ten right of
\* the coordinate "a", which is a multiple of ten.
ElementPoints == {RelativePoint("", 10), RelativePoint("a", 20)}
NameFinders == {10 * a : a \in Parents}

\* The segment nodes of the five kinds, with the points of each kind set.
ElementNodes ==
    {Node("Close")}
    \cup {[Node(t) EXCEPT !.p1 = toString(p)] :
            t \in {"Move", "Line"}, p \in ElementPoints}
    \cup {[Node("Quad") EXCEPT !.p1 = toString(p), !.p2 = toString(q)] :
            p \in ElementPoints, q \in ElementPoints}
    \cup {[Node("Cubic") EXCEPT !.p1 = toString(p), !.p2 = toString(q),
                                !.p3 = toString(r)] :
            p \in ElementPoints, q \in ElementPoints, r \in ElementPoints}

\* An Element on a segment node of a tree, first in its parent or after
\* another segment node; the parent resolves "a" to a multiple of ten.
ElementInit ==
    /\ element \in {Element(n, prev) : n \in ElementNodes,
                        prev \in {<<>>} \cup {<<m>> : m \in ElementNodes}}
    /\ parent \in NameFinders
    /\ last = Called("Element", <<>>)
    /\ d = DrawablePath
    /\ given = <<>>
    /\ run = -1
    /\ NoCopy
    /\ state = ValueTree

ConvertToLine ==
    /\ element' = convertToLine(element)
    /\ last' = Called("convertToLine", <<>>)
    /\ UNCHANGED <<d, parent, given, run, copy, heap, state>>

ConvertToCubic ==
    /\ element' = convertToCubic(element, parent)
    /\ last' = Called("convertToCubic", <<>>)
    /\ UNCHANGED <<d, parent, given, run, copy, heap, state>>

ConvertToPathBreak ==
    /\ element' = convertToPathBreak(element)
    /\ last' = Called("convertToPathBreak", <<>>)
    /\ UNCHANGED <<d, parent, given, run, copy, heap, state>>

GetNumControlPoints ==
    /\ last' = Called("getNumControlPoints", getNumControlPoints(element))
    /\ UNCHANGED <<d, parent, given, run, copy, heap, state, element>>

GetEndPoint ==
    /\ last' = Called("getEndPoint", getEndPoint(element))
    /\ UNCHANGED <<d, parent, given, run, copy, heap, state, element>>

GetPreviousElement ==
    /\ element.previous # <<>>
    /\ element' = getPreviousElement(element)
    /\ last' = Called("getPreviousElement", <<>>)
    /\ UNCHANGED <<d, parent, given, run, copy, heap, state>>

ElementNext ==
    \/ ConvertToLine
    \/ ConvertToCubic
    \/ ConvertToPathBreak
    \/ GetNumControlPoints
    \/ GetEndPoint
    \/ GetPreviousElement

ElementSpec == ElementInit /\ [][ElementNext]_vars

\* C14: convertToLine, convertToCubic and convertToPathBreak, on an element
\* of any of the five kinds, leave the resolved end point as it was, whether
\* they change the kind or not; a convertToCubic that changes the kind puts
\* the first two control points 30% and 70% of the way from the resolved
\* start point to the resolved end point.
ConversionsKeepEndPoint ==
    [][last'.op \in {"convertToLine", "convertToCubic", "convertToPathBreak"} =>
        LET s == resolve(getStartPoint(element), parent)
            e == resolve(getEndPoint(element), parent)
        IN /\ resolve(getEndPoint(element'), parent') = e
           /\ (last'.op = "convertToCubic" /\ element.state.type \in {"Line", "Quad"}) =>
                /\ element'.state.type = "Cubic"
                /\ 10 * resolve(getControlPoint(element', 0), parent') = 10 * s + 3 * (e - s)
                /\ 10 * resolve(getControlPoint(element', 1), parent') = 10 * s + 7 * (e - s)]_vars

\* C14 happens: convertToCubic has made a Cubic whose control points lie
\* one after the other, the last of them a dynamic point.
ConversionsKeepEndPointHappens ==
    /\ last.op = "convertToCubic"
    /\ element.state.type = "Cubic"
    /\ resolve(getControlPoint(element, 0), parent) < resolve(getControlPoint(element, 1), parent)
    /\ resolve(getControlPoint(element, 1), parent) < resolve(getControlPoint(element, 2), parent)
    /\ isDynamic(getEndPoint(element))

\* The kind's number of control points.
Arity(type) ==
    CASE type = "Move" -> 1
      [] type = "Close" -> 0
      [] type = "Line" -> 1
      [] type = "Quad" -> 2
      [] type = "Cubic" -> 3
      [] OTHER -> 0

\* The text of the control point arity counts to.
LastPointOf(node) ==
    CASE Arity(node.type) = 1 -> node.p1
      [] Arity(node.type) = 2 -> node.p2
      [] Arity(node.type) = 3 -> node.p3

\* C18: getNumControlPoints() is 1 for Move, 0 for Close, 1 for Line, 2 for
\* Quad, 3 for Cubic and 0 for any other tag; the end point of a kind other
\* than Close is its control point at index arity - 1 (p1, p2, p3), and the
\* end point of a Close is the default point, zero.  It holds of the element
\* and of the element before it, whose tag is none of the five when there
\* is no such sibling.
EndPointIsLastControlPoint ==
    \A e \in {element, getPreviousElement(element)} :
        /\ getNumControlPoints(e) = Arity(e.state.type)
        /\ e.state.type \in {"Move", "Line", "Quad", "Cubic"} =>
              /\ getEndPoint(e) = getControlPoint(e, getNumControlPoints(e) - 1)
              /\ getEndPoint(e) = RelativePointOfString(LastPointOf(e.state))
        /\ e.state.type = "Close" => resolve(getEndPoint(e), parent) = 0
        /\ (last.op = "getNumControlPoints" /\ e = element) => last.ret = Arity(e.state.type)
        /\ (last.op = "getEndPoint" /\ e = element /\ e.state.type # "Close") =>
              last.ret = RelativePointOfString(LastPointOf(e.state))

\* C18 happens: getEndPoint() of a Quad whose control points differ.
EndPointIsLastControlPointHappens ==
    /\ last.op = "getEndPoint"
    /\ element.state.type = "Quad"
    /\ element.state.p1 # element.state.p2
    /\ last.ret = RelativePointOfString(element.state.p2)

\* ------------------------------------------------------- the stroke strings
\* The texts a tree can hold in jointStyle and capStyle: the ones
\* setStrokeType writes, the names of the enumerators, and none.
JointStrings == {"miter", "curved", "bevel", "mitered", "beveled", ""}
CapStrings == {"butt", "square", "round", "rounded", "Square", ""}

\* A ValueTreeWrapper on a tree of type "Path" with any of these texts.
WrapperInit ==
    /\ state \in {[ValueTree EXCEPT !.strokeWidth = t, !.jointStyle = j, !.capStyle = c] :
                    t \in Thicknesses, j \in JointStrings, c \in CapStrings}
    /\ last = Called("ValueTreeWrapper", <<>>)
    /\ d = DrawablePath
    /\ parent \in Parents
    /\ given = <<>>
    /\ run = -1
    /\ NoCopy
    /\ element = [state |-> [type |-> ""], previous |-> <<>>]

\* ValueTreeWrapper::setStrokeType
SetStrokeTypeOfTree ==
    \E newStrokeType \in AllStrokeTypes :
        /\ state' = setStrokeTypeOfTree(state, newStrokeType)
        /\ last' = [Called("setStrokeType", <<>>) EXCEPT !.arg = newStrokeType]
        /\ UNCHANGED <<d, parent, given, run, copy, heap, element>>

\* ValueTreeWrapper::getStrokeType
GetStrokeType ==
    /\ last' = [Called("getStrokeType", getStrokeType(state))
                    EXCEPT !.again = last.op = "setStrokeType"]
    /\ UNCHANGED <<d, parent, given, run, copy, heap, state, element>>

WrapperNext ==
    \/ SetStrokeTypeOfTree
    \/ GetStrokeType

WrapperSpec == WrapperInit /\ [][WrapperNext]_vars

\* C15: getStrokeType after setStrokeType (s) returns s, for every joint
\* style, end-cap style and thickness; and getStrokeType of any tree gives
\* the tree's strokeWidth, the joint style mitered unless jointStyle is
\* "curved" or "bevel", and the end-cap style butt unless capStyle is
\* "square" or "round": always a descriptor, never an error.
StrokeStringsRoundTrip ==
    /\ last.op = "setStrokeType" => getStrokeType(state) = last.arg
    /\ getStrokeType(state).thickness = state.strokeWidth
    /\ getStrokeType(state).jointStyle \in JointStyles
    /\ getStrokeType(state).endStyle \in EndCapStyles
    /\ (state.jointStyle = "curved") <=> (getStrokeType(state).jointStyle = "curved")
    /\ (state.jointStyle = "bevel") <=> (getStrokeType(state).jointStyle = "beveled")
    /\ (state.capStyle = "square") <=> (getStrokeType(state).endStyle = "square")
    /\ (state.capStyle = "round") <=> (getStrokeType(state).endStyle = "rounded")
    /\ state.jointStyle \notin {"curved", "bevel"} => getStrokeType(state).jointStyle = "mitered"
    /\ state.capStyle \notin {"square", "round"} => getStrokeType(state).endStyle = "butt"
    /\ last.op = "getStrokeType" => last.ret = getStrokeType(state)

\* C15 happens: getStrokeType directly after setStrokeType has returned a
\* beveled, rounded stroke of thickness 2.
StrokeStringsRoundTripHappens ==
    /\ last.op = "getStrokeType"
    /\ last.again
    /\ last.ret = PathStrokeType(2, "beveled", "rounded")
    /\ state.jointStyle = "bevel"
    /\ state.capStyle = "round"

====
